---- MODULE Spec2Model ----
(***************************************************************************)
(* Two serverless HTTP handlers.                                           *)
(*   lambda-dynamo/app.py : POST /items, PUT /items/{item_id},             *)
(*                          GET /items/{item_id} over one DynamoDB table.  *)
(*   lambda-s3/app.py     : GET /files/{file_key:path} over one S3 bucket. *)
(* A handler is one action: it issues its backend call, maps the answer    *)
(* to an HTTP response and records request, response and call trace in     *)
(* `last`.  The backends are the environment: a call answers by the        *)
(* backend's semantics or raises a fault chosen by the environment.  The   *)
(* table is one copy: a read sees the latest write.                        *)
(***************************************************************************)
EXTENDS Integers, Sequences, FiniteSets, TLC

VARIABLES app, table, store, bucket_owner, last

vars == <<app, table, store, bucket_owner, last>>

(* ---------------------------- bounds ----------------------------------- *)

NumValues == 2
MaxBodyLen == 1

(* ---------------------------- domains ---------------------------------- *)

Apps == {"lambda-dynamo", "lambda-s3"}

\* item ids used in the requests
Keys == {"test1", "test2"}

AllValues == <<"initial", "updated", "hello", "retrieve_me", "other">>
Values == {AllValues[i] : i \in 1..NumValues}

AttrNames == {"id", "value", "extra"}

\* the values a JSON body may give to attribute a
AttrValues(a) == IF a = "id" THEN Keys ELSE IF a = "value" THEN Values ELSE {"x"}

\* request bodies (`item: dict`, `update: dict`): maps over any subset of the names
Bodies == UNION {{m \in [D -> Keys \cup Values \cup {"x"}] : \A a \in D : m[a] \in AttrValues(a)} :
                 D \in SUBSET AttrNames}

\* what the environment does to one backend call
Envs == {[fault |-> "none", applied |-> TRUE],
         [fault |-> "Throttling", applied |-> FALSE],
         [fault |-> "Timeout", applied |-> FALSE],
         [fault |-> "Timeout", applied |-> TRUE]}

\* object keys, as the segments a slash separates
FileKeys == {<<"test-file.txt">>, <<"folder">>, <<"folder", "document.txt">>}

\* object contents: byte strings, 137 (0x89) being no UTF-8
Bytes == {65, 137}
ByteSeqs == UNION {[1..n -> Bytes] : n \in 0..MaxBodyLen}

\* the account that owns the bucket, and the values BUCKET_OWNER may have
BucketOwner == "123456789012"
OwnerSettings == {"", "123456789012", "999999999999"}

(* ---------------------------- responses -------------------------------- *)

JSONResponse(status, json) ==
    [status |-> status, json |-> json, content |-> <<>>,
     media_type |-> "application/json", raised |-> "none"]

HTTPException(status_code, detail) == JSONResponse(status_code, [detail |-> detail])

\* an exception no handler catches: the platform's default 500
Unhandled(fault) ==
    [status |-> 500, json |-> [detail |-> "Internal Server Error"], content |-> <<>>,
     media_type |-> "text/plain", raised |-> fault]

(* ---------------------------- DynamoDB table --------------------------- *)

\* the item stored under key, <<>> when there is none
Stored(t, key) == IF key \in DOMAIN t THEN t[key] ELSE <<>>

\* a write the environment lets through, or one that timed out after it was applied
Applied(env) == env.fault = "none" \/ (env.fault = "Timeout" /\ env.applied)

\* faulty variant: only the two validated fields are written
put_item_required_only(t, item, env) ==
    [raised |-> env.fault,
     table |-> IF Applied(env)
               THEN [k \in DOMAIN t \cup {item["id"]} |->
                        IF k = item["id"]
                        THEN [a \in DOMAIN item \cap {"id", "value"} |-> item[a]]
                        ELSE t[k]]
               ELSE t]

\* faulty variant: the item is merged into the stored one, as an update would
put_item_merges(t, item, env) ==
    [raised |-> env.fault,
     table |-> IF Applied(env)
               THEN [k \in DOMAIN t \cup {item["id"]} |->
                        IF k = item["id"]
                        THEN [a \in DOMAIN item \cup DOMAIN Stored(t, k) |->
                                 IF a \in DOMAIN item THEN item[a] ELSE t[k][a]]
                        ELSE t[k]]
               ELSE t]

\* table.put_item(Item=item): the item replaces whatever is stored under its key
put_item(t, item, env) ==
    [raised |-> env.fault,
     table |-> IF Applied(env)
               THEN [k \in DOMAIN t \cup {item["id"]} |->
                        IF k = item["id"] THEN item ELSE t[k]]
               ELSE t]

\* faulty variant: the item is rebuilt from the update alone, as a put would
update_item_replaces(t, key, attrs, env) ==
    IF "id" \in DOMAIN attrs
    THEN [raised |-> "ValidationException", table |-> t]
    ELSE LET new == [a \in {"id"} \cup DOMAIN attrs |->
                        IF a \in DOMAIN attrs THEN attrs[a].Value ELSE key]
         IN  [raised |-> env.fault,
              table |-> IF Applied(env)
                        THEN [k \in DOMAIN t \cup {key} |-> IF k = key THEN new ELSE t[k]]
                        ELSE t]

\* faulty variant: the update is conditioned on the item being there
update_item_must_exist(t, key, attrs, env) ==
    IF "id" \in DOMAIN attrs
    THEN [raised |-> "ValidationException", table |-> t]
    ELSE IF key \notin DOMAIN t
    THEN [raised |-> "ConditionalCheckFailedException", table |-> t]
    ELSE LET new == [a \in DOMAIN t[key] \cup DOMAIN attrs |->
                        IF a \in DOMAIN attrs THEN attrs[a].Value ELSE t[key][a]]
         IN  [raised |-> env.fault,
              table |-> IF Applied(env)
                        THEN [k \in DOMAIN t |-> IF k = key THEN new ELSE t[k]]
                        ELSE t]

\* table.update_item(Key={"id": key}, AttributeUpdates=attrs), every Action "PUT":
\* the named attributes are set on the item, which is created when absent; an
\* update that names the key attribute is rejected by the table ("Cannot update
\* attribute id. This attribute is part of the key")
update_item(t, key, attrs, env) ==
    IF "id" \in DOMAIN attrs
    THEN [raised |-> "ValidationException", table |-> t]
    ELSE LET old == IF key \in DOMAIN t THEN t[key] ELSE [id |-> key]
             new == [a \in DOMAIN old \cup DOMAIN attrs |->
                        IF a \in DOMAIN attrs THEN attrs[a].Value ELSE old[a]]
         IN  [raised |-> env.fault,
              table |-> IF Applied(env)
                        THEN [k \in DOMAIN t \cup {key} |-> IF k = key THEN new ELSE t[k]]
                        ELSE t]

\* table.get_item(Key={"id": key}): the response holds "Item" only when one is stored
get_item(t, key, env) ==
    [raised |-> env.fault,
     response |-> IF key \in DOMAIN t
                  THEN [Item |-> t[key], ResponseMetadata |-> [HTTPStatusCode |-> 200]]
                  ELSE [ResponseMetadata |-> [HTTPStatusCode |-> 200]]]

(* ---------------------------- lambda-dynamo/app.py --------------------- *)

Message(id, what) == [message |-> <<"Item", id, what>>]

\* faulty variant: the check of "value" is forgotten
create_item_checks_id_only(t, item, env) ==
    IF "id" \notin DOMAIN item
    THEN [resp |-> HTTPException(400, "Invalid item data"), table |-> t,
          trace |-> <<"respond">>]
    ELSE LET r == put_item(t, item, env)
         IN  IF r.raised # "none"
             THEN [resp |-> Unhandled(r.raised), table |-> r.table,
                   trace |-> <<"call put_item", "raise put_item", "respond">>]
             ELSE [resp |-> JSONResponse(200, Message(item["id"], "created.")),
                   table |-> r.table,
                   trace |-> <<"call put_item", "return put_item", "respond">>]

create_item(t, item, env) ==
    IF "id" \notin DOMAIN item \/ "value" \notin DOMAIN item
    THEN [resp |-> HTTPException(400, "Invalid item data"), table |-> t,
          trace |-> <<"respond">>]
    ELSE LET r == put_item(t, item, env)
         IN  IF r.raised # "none"
             THEN [resp |-> Unhandled(r.raised), table |-> r.table,
                   trace |-> <<"call put_item", "raise put_item", "respond">>]
             ELSE [resp |-> JSONResponse(200, Message(item["id"], "created.")),
                   table |-> r.table,
                   trace |-> <<"call put_item", "return put_item", "respond">>]

update_item_handler(t, item_id, update, env) ==
    LET attrs == [k \in DOMAIN update |-> [Value |-> update[k], Action |-> "PUT"]]
        r == update_item(t, item_id, attrs, env)
    IN  IF r.raised # "none"
        THEN [resp |-> Unhandled(r.raised), table |-> r.table,
              trace |-> <<"call update_item", "raise update_item", "respond">>]
        ELSE [resp |-> JSONResponse(200, Message(item_id, "updated.")),
              table |-> r.table,
              trace |-> <<"call update_item", "return update_item", "respond">>]

\* faulty variant: the test for a missing "Item" is forgotten
get_item_handler_unchecked(t, item_id, env) ==
    LET r == get_item(t, item_id, env)
    IN  IF r.raised # "none"
        THEN [resp |-> Unhandled(r.raised), table |-> t,
              trace |-> <<"call get_item", "raise get_item", "respond">>]
        ELSE [resp |-> JSONResponse(200, Stored(t, item_id)), table |-> t,
              trace |-> <<"call get_item", "return get_item", "respond">>]

\* faulty variant: the read takes the item out of the table
get_item_handler_consumes(t, item_id, env) ==
    LET r == get_item(t, item_id, env)
        rest == [k \in DOMAIN t \ {item_id} |-> t[k]]
    IN  IF r.raised # "none"
        THEN [resp |-> Unhandled(r.raised), table |-> t,
              trace |-> <<"call get_item", "raise get_item", "respond">>]
        ELSE IF "Item" \notin DOMAIN r.response
        THEN [resp |-> HTTPException(404, "Item not found"), table |-> t,
              trace |-> <<"call get_item", "return get_item", "respond">>]
        ELSE [resp |-> JSONResponse(200, r.response.Item), table |-> rest,
              trace |-> <<"call get_item", "return get_item", "respond">>]

get_item_handler(t, item_id, env) ==
    LET r == get_item(t, item_id, env)
    IN  IF r.raised # "none"
        THEN [resp |-> Unhandled(r.raised), table |-> t,
              trace |-> <<"call get_item", "raise get_item", "respond">>]
        ELSE IF "Item" \notin DOMAIN r.response
        THEN [resp |-> HTTPException(404, "Item not found"), table |-> t,
              trace |-> <<"call get_item", "return get_item", "respond">>]
        ELSE [resp |-> JSONResponse(200, r.response.Item), table |-> t,
              trace |-> <<"call get_item", "return get_item", "respond">>]

(* ---------------------------- S3 bucket ------------------------------- *)

\* s3.get_object(**get_params): the object stored under exactly params.Key; an
\* expected owner that is not the bucket's owner is refused before the key is
\* looked at, and a key with no object raises NoSuchKey
get_object(objects, params, env) ==
    IF env.fault # "none"
    THEN [raised |-> env.fault, Body |-> <<>>]
    ELSE IF "ExpectedBucketOwner" \in DOMAIN params
            /\ params["ExpectedBucketOwner"] # BucketOwner
    THEN [raised |-> "AccessDenied", Body |-> <<>>]
    ELSE IF params["Key"] \notin DOMAIN objects
    THEN [raised |-> "NoSuchKey", Body |-> <<>>]
    ELSE [raised |-> "none", Body |-> objects[params["Key"]]]

(* ---------------------------- lambda-s3/app.py ------------------------- *)

\* faulty variant: {file_key} without the path convertor takes one segment only
route_get_file_one_segment(path) ==
    IF Len(path) = 2 /\ Head(path) = "files"
    THEN [matched |-> TRUE, file_key |-> Tail(path)]
    ELSE [matched |-> FALSE, file_key |-> <<>>]

\* @app.get("/files/{file_key:path}"): the path convertor takes everything after
\* /files/, slashes included
route_get_file(path) ==
    IF Len(path) >= 2 /\ Head(path) = "files"
    THEN [matched |-> TRUE, file_key |-> Tail(path)]
    ELSE [matched |-> FALSE, file_key |-> <<>>]

\* Response(content, media_type=...): bytes are sent as they are
Response(content, media_type) ==
    [status |-> 200, json |-> <<>>, content |-> content,
     media_type |-> media_type, raised |-> "none"]

\* the parameters of the lookup: the expected owner is added when one is set
GetParams(owner, file_key) ==
    IF owner # ""
    THEN [Bucket |-> "my-demo-bucket", Key |-> file_key, ExpectedBucketOwner |-> owner]
    ELSE [Bucket |-> "my-demo-bucket", Key |-> file_key]

\* faulty variant: every exception of the lookup is caught, not NoSuchKey alone
get_file_catches_all(objects, owner, file_key, env) ==
    LET obj == get_object(objects, GetParams(owner, file_key), env)
    IN  IF obj.raised # "none"
        THEN [resp |-> HTTPException(404, "File not found"),
              trace |-> <<"call get_object", "raise get_object", "respond">>]
        ELSE [resp |-> Response(obj.Body, "text/plain"),
              trace |-> <<"call get_object", "return get_object", "read Body",
                          "respond">>]

\* faulty variant: a lookup that raised anything but NoSuchKey is tried once more
get_file_retries(objects, owner, file_key, env) ==
    LET first == get_object(objects, GetParams(owner, file_key), env)
        again == get_object(objects, GetParams(owner, file_key),
                            [fault |-> "none", applied |-> TRUE])
        obj == IF first.raised \in {"none", "NoSuchKey"} THEN first ELSE again
        pre == IF first.raised \in {"none", "NoSuchKey"} THEN <<>>
               ELSE <<"call get_object", "raise get_object">>
    IN  IF obj.raised = "NoSuchKey"
        THEN [resp |-> HTTPException(404, "File not found"),
              trace |-> pre \o <<"call get_object", "raise get_object", "respond">>]
        ELSE IF obj.raised # "none"
        THEN [resp |-> Unhandled(obj.raised),
              trace |-> pre \o <<"call get_object", "raise get_object", "respond">>]
        ELSE [resp |-> Response(obj.Body, "text/plain"),
              trace |-> pre \o <<"call get_object", "return get_object", "read Body",
                                 "respond">>]

get_file(objects, owner, file_key, env) ==
    LET get_params == GetParams(owner, file_key)
        obj == get_object(objects, get_params, env)
    IN  IF obj.raised = "NoSuchKey"
        THEN [resp |-> HTTPException(404, "File not found"),
              trace |-> <<"call get_object", "raise get_object", "respond">>]
        ELSE IF obj.raised # "none"
        THEN [resp |-> Unhandled(obj.raised),
              trace |-> <<"call get_object", "raise get_object", "respond">>]
        ELSE [resp |-> Response(obj.Body, "text/plain"),
              trace |-> <<"call get_object", "return get_object", "read Body",
                          "respond">>]

\* GET <path> on the file app: the router's own 404 when no route matches
get_path(objects, owner, path, env) ==
    LET m == route_get_file(path)
    IN  IF m.matched
        THEN get_file(objects, owner, m.file_key, env)
        ELSE [resp |-> HTTPException(404, "Not Found"), trace |-> <<"respond">>]

(* ---------------------------- state machine ---------------------------- *)

\* the key a create names, "" when its body has no id
KeyOf(item) == IF "id" \in DOMAIN item THEN item["id"] ELSE ""

NoRequest ==
    [op |-> "none", key |-> "", file_key |-> <<>>, body |-> <<>>, fault |-> "none",
     resp |-> JSONResponse(0, <<>>), trace |-> <<>>, prior |-> <<>>]

\* the buckets a file app may be started on
Stores == UNION {[D -> ByteSeqs] : D \in SUBSET FileKeys}

\* one handler process: either app, its table empty or its bucket as uploaded and
\* BUCKET_OWNER as set when the module was loaded
Init ==
    /\ app \in Apps
    /\ table = <<>>
    /\ store \in (IF app = "lambda-s3" THEN Stores ELSE {<<>>})
    /\ bucket_owner \in (IF app = "lambda-s3" THEN OwnerSettings ELSE {""})
    /\ last = NoRequest

Create ==
    /\ app = "lambda-dynamo"
    /\ \E item \in Bodies, env \in Envs :
         LET r == create_item(table, item, env)
         IN  /\ table' = r.table
             /\ last' = [op |-> "create", key |-> KeyOf(item), file_key |-> <<>>,
                         body |-> item,
                         fault |-> env.fault, resp |-> r.resp, trace |-> r.trace,
                         prior |-> Stored(table, KeyOf(item))]
    /\ UNCHANGED <<app, store, bucket_owner>>

Update ==
    /\ app = "lambda-dynamo"
    /\ \E item_id \in Keys, update \in Bodies, env \in Envs :
         LET r == update_item_handler(table, item_id, update, env)
         IN  /\ table' = r.table
             /\ last' = [op |-> "update", key |-> item_id, file_key |-> <<>>,
                         body |-> update,
                         fault |-> env.fault, resp |-> r.resp, trace |-> r.trace,
                         prior |-> Stored(table, item_id)]
    /\ UNCHANGED <<app, store, bucket_owner>>

Read ==
    /\ app = "lambda-dynamo"
    /\ \E item_id \in Keys, env \in Envs :
         LET r == get_item_handler(table, item_id, env)
         IN  /\ table' = r.table
             /\ last' = [op |-> "read", key |-> item_id, file_key |-> <<>>,
                         body |-> <<>>,
                         fault |-> env.fault, resp |-> r.resp, trace |-> r.trace,
                         prior |-> Stored(table, item_id)]
    /\ UNCHANGED <<app, store, bucket_owner>>

Fetch ==
    /\ app = "lambda-s3"
    /\ \E file_key \in FileKeys, env \in Envs :
         LET r == get_path(store, bucket_owner, <<"files">> \o file_key, env)
         IN  last' = [op |-> "fetch", key |-> "", file_key |-> file_key,
                      body |-> <<>>, fault |-> env.fault, resp |-> r.resp,
                      trace |-> r.trace, prior |-> <<>>]
    /\ UNCHANGED <<app, table, store, bucket_owner>>

Next == Create \/ Update \/ Read \/ Fetch

Spec == Init /\ [][Next]_vars

(* ---------------------------- properties ------------------------------- *)

\* a backend call the environment lets answer
Available == [fault |-> "none", applied |-> TRUE]

HasRequired(item) == "id" \in DOMAIN item /\ "value" \in DOMAIN item

\* the backend calls a handler issued
Calls(trace) == Cardinality({i \in DOMAIN trace :
                    trace[i] \in {"call put_item", "call update_item",
                                  "call get_item", "call get_object"}})

\* C1: a create whose body holds both id and value, written to an available
\* table, answers 200 with a message; the item then stored under its id is the
\* body itself, and a read of that id issued next answers 200 with that same map
C1_CreateThenRead ==
    (last.op = "create" /\ HasRequired(last.body) /\ last.fault = "none") =>
        /\ last.resp.status = 200
        /\ "message" \in DOMAIN last.resp.json
        /\ last.key \in DOMAIN table
        /\ table[last.key] = last.body
        /\ LET rd == get_item_handler(table, last.key, Available)
           IN  rd.resp.status = 200 /\ rd.resp.json = last.body

\* a create with a third attribute answered 200 over a different stored item
C1_Witness ==
    /\ last.op = "create"
    /\ last.resp.status = 200
    /\ "extra" \in DOMAIN last.body
    /\ last.prior # <<>>
    /\ last.prior # last.body

\* C2: a create whose body lacks id or value answers 400, leaves the table as it
\* was and issues no backend call
C2_InvalidCreateWritesNothing ==
    [][(last'.op = "create" /\ ~HasRequired(last'.body)) =>
          /\ last'.resp.status = 400
          /\ table' = table
          /\ Calls(last'.trace) = 0]_vars

\* a create that names an id but no value was refused on a table that holds items
C2_Witness ==
    /\ last.op = "create"
    /\ last.resp.status = 400
    /\ "id" \in DOMAIN last.body
    /\ "value" \notin DOMAIN last.body
    /\ last.key \in DOMAIN table

\* C7: a create with both fields answers 200 whether or not its key was stored,
\* and the stored item has exactly the body's attributes: none of the earlier
\* item's other attributes is left
C7_CreateReplacesWholeRecord ==
    (last.op = "create" /\ HasRequired(last.body) /\ last.fault = "none") =>
        /\ last.resp.status = 200
        /\ DOMAIN table[last.key] = DOMAIN last.body
        /\ \A a \in DOMAIN last.prior \ DOMAIN last.body : a \notin DOMAIN table[last.key]
        /\ \A a \in DOMAIN last.body : table[last.key][a] = last.body[a]

\* a create answered 200 over an item that held an attribute the body does not name
C7_Witness ==
    /\ last.op = "create"
    /\ last.resp.status = 200
    /\ "extra" \in DOMAIN last.prior
    /\ "extra" \notin DOMAIN last.body
    /\ "extra" \notin DOMAIN table[last.key]

\* what an update of a stored item is to do: answer 200, set the attributes the
\* body names, keep every other attribute of the item and every other item
UpdateOfStoredItem ==
    LET k == last'.key
        u == last'.body
    IN  /\ last'.resp.status = 200
        /\ DOMAIN table' = DOMAIN table
        /\ DOMAIN table'[k] = DOMAIN table[k] \cup DOMAIN u
        /\ \A a \in DOMAIN u : table'[k][a] = u[a]
        /\ \A a \in DOMAIN table[k] \ DOMAIN u : table'[k][a] = table[k][a]
        /\ \A j \in DOMAIN table \ {k} : table'[j] = table[j]

C4_ReadFindsOrNotFound ==
    [][last'.op = "read" =>
          /\ table' = table
          /\ last'.fault = "none" =>
                /\ (last'.resp.status = 404) <=> (last'.key \notin DOMAIN table)
                /\ last'.resp.status = 404 => "detail" \in DOMAIN last'.resp.json
                /\ last'.key \in DOMAIN table =>
                      /\ last'.resp.status = 200
                      /\ last'.resp.json = table[last'.key]]_vars

\* a read answered 404 while the other key holds an item
C4_Witness ==
    /\ last.op = "read"
    /\ last.resp.status = 404
    /\ last.key \notin DOMAIN table
    /\ table # <<>>

\* what an update of a key with no item does: answer 200 and store the key
\* with exactly the attributes of the body, which a read then returns
UpdateCreatedRecord ==
    /\ last.resp.status = 200
    /\ last.key \in DOMAIN table
    /\ DOMAIN table[last.key] = {"id"} \cup DOMAIN last.body
    /\ table[last.key]["id"] = last.key
    /\ \A a \in DOMAIN last.body : table[last.key][a] = last.body[a]
    /\ LET rd == get_item_handler(table, last.key, Available)
       IN  rd.resp.status = 200 /\ rd.resp.json = table[last.key]

C10_KeysOnlyGrow ==
    [][DOMAIN table \subseteq DOMAIN table']_vars

\* both keys are stored and the last request failed
C10_Witness ==
    /\ DOMAIN table = Keys
    /\ last.op \in {"create", "update", "read"}
    /\ last.resp.status \in {400, 500}

\* the lookup is not refused for its expected owner
OwnerAccepted == bucket_owner = "" \/ bucket_owner = BucketOwner

\* C5: a fetch of a key that has an object, slashes or not, whose lookup is let
\* through, answers 200 with exactly the stored bytes, empty or not UTF-8 alike,
\* labelled text/plain, and leaves the bucket as it was
C5_FetchReturnsStoredBytes ==
    [][(last'.op = "fetch" /\ last'.file_key \in DOMAIN store
        /\ last'.fault = "none" /\ OwnerAccepted) =>
          /\ last'.resp.status = 200
          /\ last'.resp.content = store[last'.file_key]
          /\ last'.resp.media_type = "text/plain"
          /\ store' = store]_vars

\* a key with a slash was fetched and the answer holds a byte that is no UTF-8,
\* while the key's first segment holds another object
C5_Witness ==
    /\ last.op = "fetch"
    /\ last.resp.status = 200
    /\ Len(last.file_key) = 2
    /\ \E i \in DOMAIN last.resp.content : last.resp.content[i] = 137
    /\ <<"folder">> \in DOMAIN store
    /\ store[<<"folder">>] # store[last.file_key]

\* a fault of the lookup other than the missing key
OtherFault == last.fault # "none" \/ ~OwnerAccepted

\* C6: a fetch answers 404 "File not found" exactly when the lookup found no
\* object under the key; every other fault of the lookup (owner mismatch,
\* throttling, timeout) is answered neither 404 nor 200 but left unhandled, and
\* the lookup is issued once
C6_OnlyMissingKeyIs404 ==
    last.op = "fetch" =>
        /\ (~OtherFault /\ last.file_key \notin DOMAIN store) =>
              /\ last.resp.status = 404
              /\ last.resp.json = [detail |-> "File not found"]
        /\ last.resp.status = 404 => (~OtherFault /\ last.file_key \notin DOMAIN store)
        /\ OtherFault =>
              /\ last.resp.status \notin {200, 404}
              /\ last.resp.raised \notin {"none", "NoSuchKey"}
        /\ Calls(last.trace) = 1

\* a key with no object was fetched with a mismatched expected owner: unhandled
C6_Witness ==
    /\ last.op = "fetch"
    /\ last.file_key \notin DOMAIN store
    /\ last.resp.raised = "AccessDenied"
    /\ last.resp.status = 500

\* every backend call of the trace has ended before the response
CallsEndBeforeResponse(trace) ==
    /\ Len(trace) >= 1
    /\ trace[Len(trace)] = "respond"
    /\ \A i \in DOMAIN trace :
          trace[i] \in {"call put_item", "call update_item", "call get_item",
                        "call get_object"}
             => /\ i + 1 < Len(trace)
                /\ trace[i + 1] \in {"return put_item", "raise put_item",
                                     "return update_item", "raise update_item",
                                     "return get_item", "raise get_item",
                                     "return get_object", "raise get_object"}

\* C9 as stated: every request issues exactly one backend call, ended before
\* the response
C9_ExactlyOneCall ==
    last.op # "none" =>
        /\ Calls(last.trace) = 1
        /\ CallsEndBeforeResponse(last.trace)

\* C9, amended: every request issues at most one backend call, ended before the
\* response: exactly one for an update, a read, a fetch and a create that holds
\* both id and value, and none for a create refused with 400
C9_OneCallUnlessRefused ==
    last.op # "none" =>
        /\ CallsEndBeforeResponse(last.trace)
        /\ Calls(last.trace) =
              (IF last.op = "create" /\ ~HasRequired(last.body) THEN 0 ELSE 1)
        /\ (Calls(last.trace) = 0) <=> (last.resp.status = 400)

\* a create was refused with 400 and no backend call was issued
C9_Witness ==
    /\ last.op = "create"
    /\ ~HasRequired(last.body)
    /\ last.resp.status = 400
    /\ Calls(last.trace) = 0

====
